---- MODULE Spec2Model ----
(***************************************************************************)
(* contrail-healer: the bus connector and dispatcher (heal.py) and the     *)
(* per-healer pipeline (healer.py) under gevent's cooperative scheduling.  *)
(*                                                                         *)
(* One action is one run slice of a greenlet: from the point where it is   *)
(* switched in to the point where it blocks, sleeps or ends.  Time is      *)
(* counted in ticks of the polling sleep, gevent.sleep(0.1); a greenlet    *)
(* that is runnable or a timer that is due runs before the clock moves.    *)
(***************************************************************************)
EXTENDS Integers, Sequences, FiniteSets, Bags, TLC

----------------------------------------------------------------------------
(* Bounds of the model and tunables of the healers (class attributes that  *)
(* a healer overrides, healer.py:136-145), in ticks where they are times.  *)

MaxMsgs == 1
MaxBuffered == 4
MaxRetried == 1
MaxFaulty == 2
MaxFailures == 2
MaxStopped == 1
MaxTimed == 1
MaxPlaced == 2
MaxDropped == 2
BufferSize == 3
BufferTimeout == 2
CheckDelay == 1
MaxCheckRetries == 2

(* gevent.sleep(0.1) in Healer._work and Heal._process: ticks per second.  *)
TicksPerSecond == 10

----------------------------------------------------------------------------
(* Healer plugins, as discovered by _register_healers.                     *)

(* h3 is a plugin that breaks the contract of a healer: its resource is    *)
(* the empty string and its on names no operation of Operation.            *)
Healers == {"h1", "h2", "h3"}
Extensions == <<"h1", "h2">>

resource(h) == IF h = "h3" THEN "" ELSE "floating-ip"
on(h) ==
  CASE h = "h1" -> <<"UPDATE", "CREATE">>
    [] h = "h2" -> <<"CREATE">>
    [] OTHER -> <<"PATCH">>

Types == {"floating-ip", "virtual-ip"}
Opers == {"UPDATE", "CREATE", "DELETE"}

NoItem == <<>>

(* Resource(body['type'], **body['obj_dict']) and Resource(type, uuid=u):  *)
(* a reference is the type and the form it was built from.                 *)
Ref(body) == <<body.type, body.ident>>
Items == {<<o, <<t, f>>>> : o \in Opers, t \in Types, f \in {"obj_dict", "uuid"}}

----------------------------------------------------------------------------
(* Message bodies the bus can deliver.                                     *)

Event(t, o, i) == [kind |-> "event", type |-> t, oper |-> o, ident |-> i]
Malformed(k) == [kind |-> k, type |-> "-", oper |-> "-", ident |-> "-"]

Bodies ==
  { Malformed("garbage"), Malformed("notdict"),
    Malformed("notype"), Malformed("nooper") }
  \cup { Event("floating-ip", o, i) : o \in {"CREATE", "UPDATE"},
                                      i \in {"obj_dict", "uuid", "none"} }
  \cup { Event("floating-ip", "DELETE", "uuid"),
         Event("virtual-ip", "CREATE", "uuid") }

(* What check(oper, r) can hand back: a tuple headed by True, by False,    *)
(* by None or by any other object (FIPHealer's znode stat), or an          *)
(* exception; the arguments that follow a False head; whether fix raises.  *)
Heads == {"True", "False", "None", "object", "raise"}
FixArgs == {<<"zk_node", "data">>, <<>>}

(* The surroundings of four kinds of run.                                  *)
(* DaemonEnv: two plugins whose check hands back (True,), any message      *)
(* body, a bus that fails, a user who interrupts.                          *)
(* BufferEnv: one plugin, the healer of the test suite                     *)
(* (tests/test_buffer.py), whose check hands back (True,), fed with events *)
(* of two keys over a bus that does not fail.                              *)
(* RetryEnv: as BufferEnv, with a check that hands back any verdict.       *)
(* FaultEnv: two plugins whose check and fix may raise, fed with events of *)
(* two keys over a bus that does not fail.                                 *)
KeyedEvents == { Event("floating-ip", "CREATE", "uuid"),
                 Event("floating-ip", "UPDATE", "uuid") }

DaemonEnv == [plugins |-> Extensions, msgs |-> MaxMsgs, bodies |-> Bodies,
              failures |-> MaxFailures, timed |-> FALSE,
              heads |-> [h \in Healers |-> {"True"}]]

BufferEnv == [plugins |-> <<"h1">>, msgs |-> MaxBuffered, bodies |-> KeyedEvents,
              failures |-> 0, timed |-> FALSE,
              heads |-> [h \in Healers |-> {"True"}]]

RetryEnv == [plugins |-> <<"h1">>, msgs |-> MaxRetried, bodies |-> KeyedEvents,
             failures |-> 0, timed |-> FALSE,
             heads |-> [h \in Healers |-> Heads \ {"raise"}]]

(* A run that measures the time from a RETRY verdict to the re-check.      *)
BackoffEnv == [plugins |-> <<"h1">>, msgs |-> MaxTimed, bodies |-> KeyedEvents,
               failures |-> 0, timed |-> TRUE,
               heads |-> [h \in Healers |-> {"True", "None"}]]

(* A run with several events of one key, each check of which answers       *)
(* RETRY.                                                                  *)
PlacesEnv == [plugins |-> <<"h1">>, msgs |-> MaxPlaced,
              bodies |-> {Event("floating-ip", "CREATE", "uuid")},
              failures |-> 0, timed |-> FALSE,
              heads |-> [h \in Healers |-> {"None"}]]

(* A run of subscribed events of one type and operation that carry an      *)
(* obj_dict, a uuid, neither of them, or an obj_dict that is null.         *)
DropEnv == [plugins |-> Extensions, msgs |-> MaxDropped,
            bodies |-> {Event("floating-ip", "CREATE", i) :
                          i \in {"obj_dict", "uuid", "none", "null"}},
            failures |-> 0, timed |-> FALSE,
            heads |-> [h \in Healers |-> {"True"}]]

ShutdownEnv == [plugins |-> <<"h1">>, msgs |-> MaxStopped, bodies |-> KeyedEvents,
                failures |-> 0, timed |-> FALSE,
                heads |-> [h \in Healers |-> {"True", "None"}]]

PluginEnv == [plugins |-> <<"h1", "h3">>, msgs |-> MaxMsgs, bodies |-> KeyedEvents,
              failures |-> 0, timed |-> FALSE,
              heads |-> [h \in Healers |-> {"True"}]]

(* FIPHealer.check, healers/fip.py lines 52-63: (True,) when the floating  *)
(* IP is gone, (None,) when no public subnet holds its address, else what  *)
(* KazooClient.exists hands back for the znode: its ZnodeStat, an object,  *)
(* when the znode is there and None when it is not.                        *)
ZkExists(present) == IF present THEN "object" ELSE "None"

FIPCheck(found, inSubnet, present) ==
  IF ~found THEN "True"
  ELSE IF ~inSubnet THEN "None"
  ELSE ZkExists(present)

(* h2 as the FIPHealer, for a floating IP that exists, in a public subnet, *)
(* whose znode is missing.                                                 *)
FipEnv == [plugins |-> <<"h2">>, msgs |-> MaxMsgs,
           bodies |-> {Event("floating-ip", "CREATE", "uuid")},
           failures |-> 0, timed |-> FALSE,
           heads |-> [h \in Healers |-> {FIPCheck(TRUE, TRUE, FALSE)}]]

FaultEnv == [plugins |-> Extensions, msgs |-> MaxFaulty, bodies |-> KeyedEvents,
             failures |-> 0, timed |-> FALSE,
             heads |-> [h \in Healers |-> {"True", "False", "raise"}]]

----------------------------------------------------------------------------
VARIABLES
  env,          \* what the surroundings may do in this run, fixed at the start
  healers,      \* Heal._healers: (resource, oper) -> list of healers
  main,         \* position of the main greenlet in Heal._setup
  exitCause,    \* the exception that ended the command, "none" while it runs
  setups,       \* number of calls of Heal._setup so far
  failures,     \* number of bus failures injected so far
  drain,        \* the greenlet running Heal._process
  drainLeft,    \* 1 once its turn of this tick has handled a message
  heartbeat,    \* the greenlet running Heal._heartbeat
  orphans,      \* greenlets of heal_group left running by an earlier _setup
  acks,         \* acks[m]: number of msg.ack() calls for the m-th message
  broadcasts,   \* pool.spawn(self._broadcast, healers, body) not yet run
  starts,       \* starts[h]: pool.spawn(healer.start) not yet run
  started,      \* Healer.started
  workPc,       \* the greenlet running Healer._work
  workLeft,     \* ticks left of its gevent.sleep(0.1)
  recvPc,       \* the greenlet running Healer._receive
  queue,        \* Healer.queue, the input queue
  buffer,       \* Healer._buffer
  putters,      \* greenlets blocked in Healer._buffer.put, oldest first
  timerLeft,    \* ticks until Timer._g runs _is_ready, -1 when it has run
  ready,        \* Timer.ready
  later,        \* pool.spawn_later greenlets of the healer not yet run
  retries,      \* Healer._retries, 0 for a missing key
  checks,       \* checks[h][k]: number of calls of check on key k
  fixes,        \* fixes[h]: number of calls of fix
  errors,       \* errors[h]: number of _heal greenlets ended by an exception
  enqueued,     \* enqueued[h][k]: number of items of key k put on Healer.queue
  waited,       \* waited[h]: ticks since the buffer stopped being empty, 0 if it is
  since,        \* since[h][k]: ticks since the RETRY verdict of k whose
                \* re-check is to come, -1 when there is none or the run
                \* does not measure it
  last          \* what the last step did

daemonVars == <<env, healers, main, exitCause, setups, failures, drain, drainLeft,
                heartbeat, orphans, acks, broadcasts, starts>>
healerVars == <<started, workPc, workLeft, recvPc, queue, buffer, putters,
                timerLeft, ready, later, retries, checks, fixes, errors,
                enqueued, waited, since>>
vars == <<daemonVars, healerVars, last>>

----------------------------------------------------------------------------
(* Helpers.                                                                *)

InSeq(x, s) == \E i \in 1..Len(s) : s[i] = x

(* The record of a step: the operation, its healer and item; for _heal    *)
(* the head and the arguments of the verdict, the calls of fix and the     *)
(* call that raised; for a drain its trigger, the buffer it found, the     *)
(* checks it scheduled and the ticks the buffer had waited; for _process   *)
(* and _broadcast the message and the healers it goes to.                  *)
NoCall == [op |-> "none", h |-> "-", item |-> NoItem, head |-> "-",
           args |-> <<>>, fix |-> <<>>, exc |-> "none", buf |-> <<>>,
           sched |-> <<>>, waited |-> 0, msg |-> 0]

(* Heal._register_healer: append the healer under each of its operations.  *)
RECURSIVE RegisterOpers(_, _, _)
RegisterOpers(table, h, opers) ==
  IF opers = <<>> THEN table
  ELSE LET key == <<resource(h), Head(opers)>>
           old == IF key \in DOMAIN table THEN table[key] ELSE <<>>
           new == [k \in DOMAIN table \cup {key} |->
                     IF k = key THEN Append(old, h) ELSE table[k]]
       IN  RegisterOpers(new, h, Tail(opers))

(* As register_healer, had it registered the healer for Operation.ALL.     *)
register_healer_all(table, h) ==
  RegisterOpers(table, h, <<"UPDATE", "CREATE", "DELETE">>)

register_healer(table, h) == RegisterOpers(table, h, on(h))

(* Heal._register_healers: every extension, in the order of discovery.     *)
RECURSIVE register_healers(_, _)
register_healers(table, exts) ==
  IF exts = <<>> THEN table
  ELSE register_healers(register_healer(table, Head(exts)), Tail(exts))

(* self._healers.get(resource, {}).get(oper, [])                           *)
Lookup(table, t, o) == IF <<t, o>> \in DOMAIN table THEN table[<<t, o>>] ELSE <<>>

(* Heal._start_healers: one pool.spawn(healer.start) per table entry.      *)
StartsOf(table) ==
  [h \in Healers |-> Cardinality({k \in DOMAIN table : InSeq(h, table[k])})]

(* The state when Heal.__call__ enters _setup: the healers are registered  *)
(* and their starts are spawned.  e says what the surroundings may do:     *)
(* the plugins installed, how many messages the bus delivers and which,    *)
(* how many bus failures occur, what each healer's check hands back.       *)
InitWith(e) ==
  /\ env = e
  /\ healers = register_healers(<<>>, e.plugins)
  /\ main = "connect"
  /\ exitCause = "none"
  /\ setups = 1
  /\ failures = 0
  /\ drain = "none"
  /\ drainLeft = 0
  /\ heartbeat = "none"
  /\ orphans = [drain |-> 0, heartbeat |-> 0]
  /\ acks = <<>>
  /\ broadcasts = <<>>
  /\ starts = StartsOf(healers)
  /\ started = [h \in Healers |-> FALSE]
  /\ workPc = [h \in Healers |-> "none"]
  /\ workLeft = [h \in Healers |-> 0]
  /\ recvPc = [h \in Healers |-> "none"]
  /\ queue = [h \in Healers |-> <<>>]
  /\ buffer = [h \in Healers |-> <<>>]
  /\ putters = [h \in Healers |-> <<>>]
  /\ timerLeft = [h \in Healers |-> -1]
  /\ ready = [h \in Healers |-> FALSE]
  /\ later = [h \in Healers |-> EmptyBag]
  /\ retries = [h \in Healers |-> [k \in Items |-> 0]]
  /\ checks = [h \in Healers |-> [k \in Items |-> 0]]
  /\ fixes = [h \in Healers |-> 0]
  /\ errors = [h \in Healers |-> 0]
  /\ enqueued = [h \in Healers |-> [k \in Items |-> 0]]
  /\ waited = [h \in Healers |-> 0]
  /\ since = [h \in Healers |-> [k \in Items |-> -1]]
  /\ last = NoCall

Init == InitWith(DaemonEnv)
BufferInit == InitWith(BufferEnv)
RetryInit == InitWith(RetryEnv)
FaultInit == InitWith(FaultEnv)
ShutdownInit == InitWith(ShutdownEnv)
PluginInit == InitWith(PluginEnv)
FipInit == InitWith(FipEnv)
BackoffInit == InitWith(BackoffEnv)
PlacesInit == InitWith(PlacesEnv)
DropInit == InitWith(DropEnv)

Running == main \in {"connect", "join"}

----------------------------------------------------------------------------
(* The bus connector and the dispatcher (heal.py).                         *)

(* What Pool.kill finds in the pool besides the tasks: delayed calls,      *)
(* timers that have not fired, broadcasts that have not run.               *)
Pending ==
  IF \E h \in Healers : later[h] # EmptyBag THEN "spawn_later"
  ELSE IF \E h \in Healers : timerLeft[h] >= 0 THEN "timer"
  ELSE IF broadcasts # <<>> THEN "spawn"
  ELSE "-"

(* As PoolKill, had spawn_later not added its greenlet to the group: the   *)
(* delayed calls and the timers outlive the kill.                          *)
PoolKillSpawned ==
  /\ workPc' = [h \in Healers |-> IF workPc[h] = "none" THEN "none" ELSE "killed"]
  /\ recvPc' = [h \in Healers |-> IF recvPc[h] = "none" THEN "none" ELSE "killed"]
  /\ putters' = [h \in Healers |-> <<>>]
  /\ broadcasts' = <<>>
  /\ starts' = [h \in Healers |-> 0]
  /\ UNCHANGED <<started, workLeft, queue, buffer, ready, retries, checks, fixes,
                 errors, since, enqueued, waited, timerLeft, later>>

(* Pool.kill: gevent's Group.kill ends every greenlet of the pool, started *)
(* or not: the healers' tasks, their timers and delayed calls, and the     *)
(* broadcasts and starts that have not run yet.                            *)
PoolKill ==
  /\ workPc' = [h \in Healers |-> IF workPc[h] = "none" THEN "none" ELSE "killed"]
  /\ recvPc' = [h \in Healers |-> IF recvPc[h] = "none" THEN "none" ELSE "killed"]
  /\ putters' = [h \in Healers |-> <<>>]
  /\ timerLeft' = [h \in Healers |-> -1]
  /\ later' = [h \in Healers |-> EmptyBag]
  /\ broadcasts' = <<>>
  /\ starts' = [h \in Healers |-> 0]
  /\ UNCHANGED <<started, workLeft, queue, buffer, ready, retries, checks, fixes,
                 errors, since, enqueued, waited>>

(* Heal._cleanup: heal_group.kill() and pool.kill().                       *)
Cleanup ==
  /\ drain' = IF drain = "run" THEN "killed" ELSE drain
  /\ heartbeat' = IF heartbeat = "run" THEN "killed" ELSE heartbeat
  /\ orphans' = [drain |-> 0, heartbeat |-> 0]
  /\ PoolKill

(* Heal._setup, lines 55-70: the connection opens, exchange and queue are  *)
(* declared, the two tasks are spawned and the main greenlet joins them.   *)
Connect ==
  /\ main = "connect"
  /\ main' = "join"
  /\ drain' = "run"
  /\ drainLeft' = 0
  /\ heartbeat' = "run"
  /\ last' = NoCall
  /\ UNCHANGED <<env, orphans, healers, exitCause, setups, failures, acks, broadcasts, starts>>
  /\ UNCHANGED healerVars

(* Heal._setup, lines 57-61: conn.connect() raises socket.timeout or       *)
(* socket.error; _cleanup() and CommandError, at boot and in a reconnect.  *)
ConnectFail ==
  /\ main = "connect"
  /\ failures < env.failures
  /\ failures' = failures + 1
  /\ Cleanup
  /\ main' = "exit"
  /\ exitCause' = "CommandError"
  /\ last' = NoCall
  /\ UNCHANGED <<env, healers, setups, drainLeft, acks>>

(* The exceptions heal_group.join(raise_error=True) can raise once both    *)
(* greenlets have ended: that of the first greenlet of the group's set     *)
(* that has one, in the set's order.                                       *)
Raised == {drain, heartbeat} \ {"none", "run", "killed"}

(* As Joined, had the join returned with the first exception, like         *)
(* gevent.joinall(raise_error=True).                                       *)
JoinedFirstError == main = "join" /\ Raised # {}

(* heal_group.join(raise_error=True) returns when the group is empty.      *)
Joined == main = "join" /\ drain # "run" /\ heartbeat # "run"

(* The greenlets that run Heal._process and Heal._heartbeat, of this       *)
(* _setup and of earlier ones.                                             *)
Running1(g) == IF g = "run" THEN 1 ELSE 0
DrainTasks == Running1(drain) + orphans.drain
HeartbeatTasks == Running1(heartbeat) + orphans.heartbeat

(* Heal._setup, lines 72-74: ConnectionLost is caught, _setup() again.     *)
Reconnect ==
  /\ Joined
  /\ "ConnectionLost" \in Raised
  /\ main' = "connect"
  /\ setups' = setups + 1
  /\ drain' = "none"
  /\ heartbeat' = "none"
  /\ orphans' = [drain |-> DrainTasks, heartbeat |-> HeartbeatTasks]
  /\ last' = NoCall
  /\ UNCHANGED <<env, healers, exitCause, failures, drainLeft, acks,
                 broadcasts, starts>>
  /\ UNCHANGED healerVars

(* Heal._setup, lines 68-77: any other exception of a task leaves _setup   *)
(* and the command, with no _cleanup.                                      *)
Uncaught ==
  /\ Joined
  /\ \E e \in Raised \ {"ConnectionLost"} :
       /\ main' = "exit"
       /\ exitCause' = e
  /\ last' = NoCall
  /\ UNCHANGED <<env, orphans, healers, setups, failures, drain, drainLeft, heartbeat, acks,
                 broadcasts, starts>>
  /\ UNCHANGED healerVars

(* Heal._setup, lines 75-77: KeyboardInterrupt in the join.                *)
Interrupt ==
  /\ main = "join"
  /\ Cleanup
  /\ main' = "exit"
  /\ exitCause' = "KeyboardInterrupt"
  /\ last' = [NoCall EXCEPT !.op = "_cleanup", !.head = Pending]
  /\ UNCHANGED <<env, healers, setups, failures, drainLeft, acks>>

(* Heal._heartbeat when it ends: conn.connected is false (ConnectionLost), *)
(* or conn.heartbeat_check() raises the I/O error of the broken socket,    *)
(* which nothing in _heartbeat catches.  A heartbeat that succeeds changes *)
(* nothing and is left out.                                                *)
HeartbeatExc(connected) == IF connected THEN "socket.error" ELSE "ConnectionLost"

Heartbeat ==
  /\ Running
  /\ heartbeat = "run"
  /\ failures < env.failures
  /\ failures' = failures + 1
  /\ \E connected \in BOOLEAN : heartbeat' = HeartbeatExc(connected)
  /\ last' = NoCall
  /\ UNCHANGED <<env, orphans, healers, main, exitCause, setups, drain, drainLeft, acks,
                 broadcasts, starts>>
  /\ UNCHANGED healerVars

(* Heal._process, lines 99-104: what the try block does with a body.       *)
(* json.loads raises ValueError, a missing key KeyError, both caught;      *)
(* body['type'] on a JSON value that is no object raises TypeError.        *)
Decode(body) ==
  CASE body.kind = "garbage" -> "ValueError"
    [] body.kind = "notdict" -> "TypeError"
    [] body.kind \in {"notype", "nooper"} -> "KeyError"
    [] OTHER -> "else"

(* As AckCalls, had msg.ack() been the last statement of the else branch.  *)
AckCallsInElse(outcome) == IF outcome = "else" THEN 1 ELSE 0

(* Heal._process, lines 109-110: finally: msg.ack(), on every path.        *)
AckCalls(outcome) == 1

(* Heal._process, lines 92-111: one turn of the loop, every 0.1 s.  A turn *)
(* in which queue.get() hands back None does nothing but sleep, so it is   *)
(* left out: the turn of a tick is one of ProcessLost and Process, or none.*)
ProcessLost ==
  /\ Running
  /\ drain = "run"
  /\ drainLeft = 0
  /\ failures < env.failures
  /\ failures' = failures + 1
  /\ drain' = "ConnectionLost"
  /\ last' = NoCall
  /\ UNCHANGED <<env, orphans, healers, main, exitCause, setups, drainLeft, heartbeat, acks,
                 broadcasts, starts>>
  /\ UNCHANGED healerVars

Process ==
  /\ Running
  /\ drain = "run"
  /\ drainLeft = 0
  /\ Len(acks) < env.msgs
  /\ \E body \in env.bodies :
       LET outcome == Decode(body)
           m == Len(acks) + 1
           hs == IF outcome = "else" THEN Lookup(healers, body.type, body.oper)
                 ELSE <<>>
       IN  /\ acks' = Append(acks, AckCalls(outcome))
           /\ broadcasts' = IF hs # <<>>
                            THEN Append(broadcasts, [msg |-> m, healers |-> hs,
                                                     body |-> body])
                            ELSE broadcasts
           /\ drain' = IF outcome = "TypeError" THEN "TypeError" ELSE "run"
           /\ drainLeft' = IF outcome = "TypeError" THEN drainLeft ELSE 1
           /\ last' = [NoCall EXCEPT !.op = "_process", !.msg = m,
                                     !.head = outcome, !.sched = hs,
                                     !.item = IF outcome = "else"
                                              THEN <<body.oper, Ref(body)>>
                                              ELSE NoItem]
  /\ UNCHANGED <<env, orphans, healers, main, exitCause, setups, failures, heartbeat, starts>>
  /\ UNCHANGED healerVars

(* As HasRef, had _broadcast built a reference from every body.            *)
HasRefAlways(body) == TRUE

(* Heal._broadcast, lines 116-121, run by the pool: a reference is built   *)
(* from obj_dict when the body has the key and from uuid when it has not;  *)
(* without the key and with no uuid the call returns.  An obj_dict that is *)
(* null makes Resource(type, **None) raise TypeError in the greenlet of    *)
(* the pool, which ends it before any put.                                 *)
HasRef(body) == body.ident \in {"obj_dict", "uuid"}
BroadcastRaises(body) == IF body.ident = "null" THEN "TypeError" ELSE "none"

RECURSIVE PutAll(_, _, _)
PutAll(q, hs, item) ==
  IF hs = <<>> THEN q
  ELSE PutAll([q EXCEPT ![Head(hs)] = Append(@, item)], Tail(hs), item)

RECURSIVE CountAll(_, _, _)
CountAll(n, hs, item) ==
  IF hs = <<>> THEN n
  ELSE CountAll([n EXCEPT ![Head(hs)][item] = @ + 1], Tail(hs), item)

Broadcast ==
  /\ Running
  /\ broadcasts # <<>>
  /\ LET b == Head(broadcasts)
         item == <<b.body.oper, Ref(b.body)>>
     IN  /\ queue' = IF HasRef(b.body) THEN PutAll(queue, b.healers, item)
                     ELSE queue
         /\ enqueued' = IF HasRef(b.body) THEN CountAll(enqueued, b.healers, item)
                        ELSE enqueued
         /\ last' = [NoCall EXCEPT !.op = "_broadcast", !.msg = b.msg,
                                   !.item = IF HasRef(b.body) THEN item ELSE NoItem,
                                   !.exc = BroadcastRaises(b.body),
                                   !.sched = b.healers]
  /\ broadcasts' = Tail(broadcasts)
  /\ UNCHANGED <<env, orphans, healers, main, exitCause, setups, failures, drain, drainLeft,
                 heartbeat, acks, starts>>
  /\ UNCHANGED <<started, workPc, workLeft, recvPc, buffer, putters, timerLeft,
                 ready, later, retries, checks, fixes, errors, since, waited>>

----------------------------------------------------------------------------
(* The healer pipeline (healer.py).                                        *)

Alive(pc) == pc \in {"new", "run"}

(* As Spawns, had start had no latch.                                      *)
SpawnsAlways(isStarted) == TRUE

(* Healer.start, line 164: if self.started is False.                       *)
Spawns(isStarted) == isStarted = FALSE

(* Healer.start, run by the pool: the latch makes a second call a no-op.   *)
Start(h) ==
  /\ Running
  /\ starts[h] > 0
  /\ starts' = [starts EXCEPT ![h] = @ - 1]
  /\ IF Spawns(started[h])
     THEN /\ started' = [started EXCEPT ![h] = TRUE]
          /\ workPc' = [workPc EXCEPT ![h] = "new"]
          /\ recvPc' = [recvPc EXCEPT ![h] = "run"]
          /\ workLeft' = [workLeft EXCEPT ![h] = 0]
     ELSE UNCHANGED <<started, workPc, recvPc, workLeft>>
  /\ last' = [NoCall EXCEPT !.op = "start", !.h = h,
                            !.head = IF Spawns(started[h]) THEN "spawn" ELSE "-"]
  /\ UNCHANGED <<env, orphans, healers, main, exitCause, setups, failures, drain, drainLeft,
                 heartbeat, acks, broadcasts>>
  /\ UNCHANGED <<queue, buffer, putters, timerLeft, ready, later, retries,
                 checks, fixes, errors, since, enqueued, waited>>

Putter(by, item) == [by |-> by, item |-> item]

(* The ticks the buffer has waited, after a put: none when it was empty.   *)
Waited(before, after, ticks) == IF before = <<>> /\ after # <<>> THEN 0 ELSE ticks
RecvBlocked(h) == \E i \in 1..Len(putters[h]) : putters[h][i].by = "_receive"

(* As ReceiveLoop, had _receive read the head of the queue without taking  *)
(* it off.                                                                 *)
ReceivePeek(buf, q) ==
  IF Len(buf) < BufferSize
  THEN [buf |-> Append(buf, Head(q)), q |-> q, held |-> <<>>]
  ELSE [buf |-> buf, q |-> Tail(q), held |-> <<Putter("_receive", Head(q))>>]

(* Healer._receive, lines 170-175, from the moment it is switched in until *)
(* it blocks: in queue.get() on an empty input queue, or in _buffer.put()  *)
(* on a full buffer with the item it holds.                                *)
RECURSIVE ReceiveLoop(_, _)
ReceiveLoop(buf, q) ==
  IF q = <<>> THEN [buf |-> buf, q |-> q, held |-> <<>>]
  ELSE IF Len(buf) < BufferSize
       THEN ReceiveLoop(Append(buf, Head(q)), Tail(q))
       ELSE [buf |-> buf, q |-> Tail(q), held |-> <<Putter("_receive", Head(q))>>]

Receive(h) ==
  /\ Running
  /\ recvPc[h] = "run"
  /\ ~RecvBlocked(h)
  /\ queue[h] # <<>>
  /\ LET r == ReceiveLoop(buffer[h], queue[h])
     IN  /\ buffer' = [buffer EXCEPT ![h] = r.buf]
         /\ queue' = [queue EXCEPT ![h] = r.q]
         /\ putters' = [putters EXCEPT ![h] = @ \o r.held]
         /\ waited' = [waited EXCEPT ![h] = Waited(buffer[h], r.buf, @)]
  /\ last' = NoCall
  /\ UNCHANGED daemonVars
  /\ UNCHANGED <<started, workPc, workLeft, recvPc, timerLeft, ready, later,
                 retries, checks, fixes, errors, since, enqueued>>

(* gevent's Queue._unlock, scheduled by the get_nowait() of the drain:     *)
(* while the buffer has room the oldest blocked put goes in and its        *)
(* greenlet is switched to; the receive task then runs on until it blocks. *)
RECURSIVE UnlockLoop(_, _, _)
UnlockLoop(buf, puts, q) ==
  IF puts # <<>> /\ Len(buf) < BufferSize
  THEN LET p == Head(puts)
           buf1 == Append(buf, p.item)
       IN  IF p.by = "_receive"
           THEN LET r == ReceiveLoop(buf1, q)
                IN  UnlockLoop(r.buf, Tail(puts) \o r.held, r.q)
           ELSE UnlockLoop(buf1, Tail(puts), q)
  ELSE [buf |-> buf, puts |-> puts, q |-> q]

Unlock(h) ==
  /\ Running
  /\ putters[h] # <<>>
  /\ Len(buffer[h]) < BufferSize
  /\ LET r == UnlockLoop(buffer[h], putters[h], queue[h])
     IN  /\ buffer' = [buffer EXCEPT ![h] = r.buf]
         /\ putters' = [putters EXCEPT ![h] = r.puts]
         /\ queue' = [queue EXCEPT ![h] = r.q]
         /\ waited' = [waited EXCEPT ![h] = Waited(buffer[h], r.buf, @)]
  /\ last' = NoCall
  /\ UNCHANGED daemonVars
  /\ UNCHANGED <<started, workPc, workLeft, recvPc, timerLeft, ready, later,
                 retries, checks, fixes, errors, since, enqueued>>

(* Timer._is_ready, run by the greenlet of spawn_later when it is due.     *)
IsReady(h) ==
  /\ Running
  /\ timerLeft[h] = 0
  /\ timerLeft' = [timerLeft EXCEPT ![h] = -1]
  /\ ready' = [ready EXCEPT ![h] = TRUE]
  /\ last' = NoCall
  /\ UNCHANGED daemonVars
  /\ UNCHANGED <<started, workPc, workLeft, recvPc, queue, buffer, putters,
                 later, retries, checks, fixes, errors, since, enqueued, waited>>

(* As Keep, had every item of the buffer been appended.                    *)
KeepAll(work, to_process) == TRUE

(* Healer._process_buffer, line 202: if work not in to_process.            *)
Keep(work, to_process) == ~InSeq(work, to_process)

(* Healer._process_buffer, lines 198-205: the buffer's items in order,     *)
(* each kept only if it is not in to_process yet.                          *)
RECURSIVE ToProcess(_, _)
ToProcess(buf, to_process) ==
  IF buf = <<>> THEN to_process
  ELSE ToProcess(Tail(buf), IF Keep(Head(buf), to_process)
                            THEN Append(to_process, Head(buf))
                            ELSE to_process)

Call(fn, item, left) == [fn |-> fn, item |-> item, left |-> left]

(* Healer._process_buffer, lines 207-209: one spawn_later per item.        *)
RECURSIVE SpawnHeals(_, _)
SpawnHeals(bag, items) ==
  IF items = <<>> THEN bag
  ELSE SpawnHeals(bag (+) SetToBag({Call("_heal", Head(items), CheckDelay)}),
                  Tail(items))

(* As ResetsTimer, had the turn that finds the buffer empty left the timer *)
(* running.                                                                *)
ResetsTimerOnDrain(branch) == branch = "process"

(* Healer._work, lines 182 and 194: the branches that reset the timer.     *)
ResetsTimer(branch) == branch \in {"empty", "process"}

(* As WorkBranch, had the loop drained the buffer only when it is full.    *)
WorkBranchFullOnly(buf, isReady) ==
  IF buf = <<>> THEN "empty"
  ELSE IF Len(buf) < BufferSize THEN "wait"
  ELSE "process"

(* As WorkBranch, had the loop waited for the timer whatever the buffer    *)
(* holds.                                                                  *)
WorkBranchReadyOnly(buf, isReady) ==
  IF buf = <<>> THEN "empty"
  ELSE IF isReady = FALSE THEN "wait"
  ELSE "process"

(* Healer._work, lines 180-195: which branch a turn of the loop takes.     *)
WorkBranch(buf, isReady) ==
  IF buf = <<>> THEN "empty"
  ELSE IF Len(buf) < BufferSize /\ isReady = FALSE THEN "wait"
  ELSE "process"

(* Healer._work, lines 177-195, from the moment it is switched in until it *)
(* sleeps.  The first turn builds the Timer.  After _process_buffer the    *)
(* loop goes round without sleeping, finds the buffer empty, resets the    *)
(* timer again and sleeps.                                                 *)
Work(h) ==
  /\ Running
  /\ Alive(workPc[h])
  /\ workLeft[h] = 0
  /\ LET isReady == IF workPc[h] = "new" THEN FALSE ELSE ready[h]
         left == IF workPc[h] = "new" THEN BufferTimeout ELSE timerLeft[h]
         branch == WorkBranch(buffer[h], isReady)
         todo == ToProcess(buffer[h], <<>>)
     IN  /\ IF ResetsTimer(branch)
            THEN /\ ready' = [ready EXCEPT ![h] = FALSE]
                 /\ timerLeft' = [timerLeft EXCEPT ![h] = BufferTimeout]
            ELSE /\ ready' = [ready EXCEPT ![h] = isReady]
                 /\ timerLeft' = [timerLeft EXCEPT ![h] = left]
         /\ IF branch = "process"
            THEN /\ buffer' = [buffer EXCEPT ![h] = <<>>]
                 /\ waited' = [waited EXCEPT ![h] = 0]
                 /\ later' = [later EXCEPT ![h] = SpawnHeals(@, todo)]
                 /\ last' = [NoCall EXCEPT !.op = "_process_buffer", !.h = h,
                                           !.head = IF isReady THEN "ready" ELSE "full",
                                           !.buf = buffer[h], !.sched = todo,
                                           !.waited = waited[h]]
            ELSE /\ UNCHANGED <<buffer, later, waited>>
                 /\ last' = NoCall
  /\ workPc' = [workPc EXCEPT ![h] = "run"]
  /\ workLeft' = [workLeft EXCEPT ![h] = 1]
  /\ UNCHANGED daemonVars
  /\ UNCHANGED <<started, recvPc, queue, putters, retries, checks, fixes,
                 errors, since, enqueued>>

(* As Verdict, had _heal tested "not result[0]": None is fixed too.        *)
VerdictFalsy(head) ==
  CASE head = "raise" -> "dies"
    [] head \in {"False", "None"} -> "fix"
    [] OTHER -> "ok"

(* As Verdict, had _heal caught the exception of check and retried.        *)
VerdictRetryOnRaise(head) ==
  CASE head = "False" -> "fix"
    [] head \in {"None", "raise"} -> "_retry"
    [] OTHER -> "ok"

(* Healer._heal, lines 226-233: the branch taken on result[0].             *)
Verdict(head) ==
  CASE head = "raise" -> "dies"
    [] head = "False" -> "fix"
    [] head = "None" -> "_retry"
    [] OTHER -> "ok"

(* Healer._heal, line 229: fix is called with result[1:] as arguments.    *)
FixCall(args) == args

(* Healer._retry, lines 212-217: the new count of the key.                 *)
NbRetries(count) == count + 1

(* As RetryAgain, with the ceiling off by one.                             *)
RetryAgainOnceMore(nb_retries) == nb_retries <= MaxCheckRetries + 1

(* Healer._retry, line 218: whether the check is retried.                  *)
RetryAgain(nb_retries) == nb_retries <= MaxCheckRetries

(* As RetryDelay, had every retry been delayed by one second.              *)
RetryDelayOneSecond(nb_retries) == TicksPerSecond

(* Healer._retry, line 220: the delay of the re-insertion, in ticks.       *)
RetryDelay(nb_retries) == nb_retries * TicksPerSecond

(* Healer._heal, run by the greenlet of spawn_later when it is due: check, *)
(* then fix or _retry.  An exception of check or fix ends the greenlet     *)
(* where it is raised; gevent reports it and goes on.                      *)
Heal(h) ==
  /\ Running
  /\ \E c \in BagToSet(later[h]) :
       /\ c.fn = "_heal"
       /\ c.left = 0
       /\ \E head \in env.heads[h], args \in FixArgs,
             fixRaises \in {FALSE, "raise" \in env.heads[h]} :
            LET v == Verdict(head)
                nb == NbRetries(retries[h][c.item])
                rest == later[h] (-) SetToBag({c})
            IN  /\ v # "fix" => args = <<>> /\ fixRaises = FALSE
                /\ checks' = [checks EXCEPT ![h][c.item] = @ + 1]
                /\ fixes' = [fixes EXCEPT ![h] = IF v = "fix" THEN @ + 1 ELSE @]
                /\ errors' = [errors EXCEPT ![h] =
                                IF head = "raise" \/ fixRaises THEN @ + 1 ELSE @]
                /\ retries' = [retries EXCEPT ![h][c.item] =
                                 IF v = "_retry"
                                 THEN (IF RetryAgain(nb) THEN nb ELSE 0)
                                 ELSE @]
                /\ later' = [later EXCEPT ![h] =
                               IF v = "_retry" /\ RetryAgain(nb)
                               THEN rest (+) SetToBag({Call("put", c.item,
                                                            RetryDelay(nb))})
                               ELSE rest]
                /\ since' = [since EXCEPT ![h][c.item] =
                               IF env.timed /\ v = "_retry" /\ RetryAgain(nb)
                               THEN 0 ELSE -1]
                /\ last' = [NoCall EXCEPT
                              !.op = "_heal", !.h = h, !.item = c.item,
                              !.waited = since[h][c.item],
                              !.head = head, !.args = args,
                              !.fix = IF v = "fix" THEN <<FixCall(args)>> ELSE <<>>,
                              !.exc = IF head = "raise" THEN "check"
                                      ELSE IF fixRaises THEN "fix" ELSE "none"]
  /\ UNCHANGED daemonVars
  /\ UNCHANGED <<started, workPc, workLeft, recvPc, queue, buffer, putters,
                 timerLeft, ready, enqueued, waited>>

(* self._buffer.put((oper, r)), run by the greenlet of spawn_later when    *)
(* the retry delay is over; it blocks while the buffer is full.            *)
PutBack(h) ==
  /\ Running
  /\ \E c \in BagToSet(later[h]) :
       /\ c.fn = "put"
       /\ c.left = 0
       /\ later' = [later EXCEPT ![h] = @ (-) SetToBag({c})]
       /\ IF Len(buffer[h]) < BufferSize
          THEN /\ buffer' = [buffer EXCEPT ![h] = Append(@, c.item)]
               /\ waited' = [waited EXCEPT ![h] = IF buffer[h] = <<>> THEN 0 ELSE @]
               /\ UNCHANGED putters
          ELSE /\ putters' = [putters EXCEPT ![h] = Append(@, Putter("put", c.item))]
               /\ UNCHANGED <<buffer, waited>>
       /\ last' = NoCall
  /\ UNCHANGED daemonVars
  /\ UNCHANGED <<started, workPc, workLeft, recvPc, queue, timerLeft, ready,
                 retries, checks, fixes, errors, since, enqueued>>

----------------------------------------------------------------------------
(* Time.  A tick passes when no greenlet is runnable and no timer is due.  *)

Due(h) ==
  \/ starts[h] > 0
  \/ recvPc[h] = "run" /\ ~RecvBlocked(h) /\ queue[h] # <<>>
  \/ putters[h] # <<>> /\ Len(buffer[h]) < BufferSize
  \/ timerLeft[h] = 0
  \/ Alive(workPc[h]) /\ workLeft[h] = 0
  \/ \E c \in BagToSet(later[h]) : c.left = 0

Urgent ==
  \/ main = "connect"
  \/ Joined
  \/ broadcasts # <<>>
  \/ \E h \in Healers : Due(h)

(* The ticks a buffer has waited are counted up to one more than the      *)
(* timeout of the Timer.                                                   *)
Older(ticks) == IF ticks <= BufferTimeout THEN ticks + 1 ELSE ticks

(* The ticks since a RETRY verdict are counted while its re-check is to    *)
(* come, up to a few ticks more than the longest wait of a re-check.       *)
Elapsed(ticks) ==
  IF 0 <= ticks /\ ticks < RetryDelay(MaxCheckRetries) + BufferTimeout + CheckDelay + 4
  THEN ticks + 1
  ELSE ticks

Age(bag) ==
  LET old == BagToSet(bag)
  IN  [c \in {Call(d.fn, d.item, d.left - 1) : d \in old} |->
         bag[Call(c.fn, c.item, c.left + 1)]]

Tick ==
  /\ Running
  /\ ~Urgent
  /\ drainLeft' = 0
  /\ workLeft' = [h \in Healers |-> IF workLeft[h] > 0 THEN workLeft[h] - 1 ELSE 0]
  /\ timerLeft' = [h \in Healers |-> IF timerLeft[h] > 0 THEN timerLeft[h] - 1
                                    ELSE timerLeft[h]]
  /\ later' = [h \in Healers |-> Age(later[h])]
  /\ last' = NoCall
  /\ UNCHANGED <<env, orphans, healers, main, exitCause, setups, failures, drain, heartbeat,
                 acks, broadcasts, starts>>
  /\ waited' = [h \in Healers |-> IF buffer[h] # <<>> THEN Older(waited[h])
                                 ELSE waited[h]]
  /\ since' = [h \in Healers |-> [k \in Items |-> Elapsed(since[h][k])]]
  /\ UNCHANGED <<started, workPc, recvPc, queue, buffer, putters, ready,
                 retries, checks, fixes, errors, enqueued>>

----------------------------------------------------------------------------
(* The runs of the daemon, of the buffering healer, of the retrying healer *)
(* and of the faulty healers; each next-state relation holds the actions   *)
(* its surroundings let happen.                                            *)
Next ==
  \/ Connect
  \/ ConnectFail
  \/ Reconnect
  \/ Uncaught
  \/ Interrupt
  \/ Heartbeat
  \/ ProcessLost
  \/ Process
  \/ Broadcast
  \/ \E h \in Healers : Start(h)
  \/ \E h \in Healers : Receive(h)
  \/ \E h \in Healers : IsReady(h)
  \/ \E h \in Healers : Work(h)
  \/ \E h \in Healers : Heal(h)
  \/ Tick

BufferNext ==
  \/ Connect
  \/ Process
  \/ Broadcast
  \/ \E h \in Healers : Start(h)
  \/ \E h \in Healers : Receive(h)
  \/ \E h \in Healers : Unlock(h)
  \/ \E h \in Healers : IsReady(h)
  \/ \E h \in Healers : Work(h)
  \/ \E h \in Healers : Heal(h)
  \/ Tick

RetryNext ==
  \/ Connect
  \/ Process
  \/ Broadcast
  \/ \E h \in Healers : Start(h)
  \/ \E h \in Healers : Receive(h)
  \/ \E h \in Healers : IsReady(h)
  \/ \E h \in Healers : Work(h)
  \/ \E h \in Healers : Heal(h)
  \/ \E h \in Healers : PutBack(h)
  \/ Tick

FaultNext ==
  \/ Connect
  \/ Process
  \/ Broadcast
  \/ \E h \in Healers : Start(h)
  \/ \E h \in Healers : Receive(h)
  \/ \E h \in Healers : IsReady(h)
  \/ \E h \in Healers : Work(h)
  \/ \E h \in Healers : Heal(h)
  \/ Tick

ShutdownNext ==
  \/ Connect
  \/ Interrupt
  \/ Process
  \/ Broadcast
  \/ Tick
  \/ \E h \in Healers :
       \/ Start(h)
       \/ Receive(h)
       \/ IsReady(h)
       \/ Work(h)
       \/ Heal(h)
       \/ PutBack(h)

PluginNext ==
  \/ Connect
  \/ Process
  \/ Broadcast
  \/ Tick
  \/ \E h \in Healers :
       \/ Start(h)
       \/ Receive(h)
       \/ IsReady(h)
       \/ Work(h)
       \/ Heal(h)

FipSpec == FipInit /\ [][RetryNext]_vars
BackoffSpec == BackoffInit /\ [][RetryNext]_vars
PlacesSpec == PlacesInit /\ [][RetryNext]_vars
Spec == Init /\ [][Next]_vars
PluginSpec == PluginInit /\ [][PluginNext]_vars
DropSpec == DropInit /\ [][PluginNext]_vars
ShutdownSpec == ShutdownInit /\ [][ShutdownNext]_vars
FaultSpec == FaultInit /\ [][FaultNext]_vars

(* gevent runs every greenlet that is runnable and every timer that is     *)
(* due; the bus is not bound to deliver anything.                          *)
BufferFair ==
  /\ WF_vars(Connect)
  /\ WF_vars(Broadcast)
  /\ WF_vars(Tick)
  /\ \A h \in Healers :
       /\ WF_vars(Start(h))
       /\ WF_vars(Receive(h))
       /\ WF_vars(Unlock(h))
       /\ WF_vars(IsReady(h))
       /\ WF_vars(Work(h))
       /\ WF_vars(Heal(h))
BufferSpec == BufferInit /\ [][BufferNext]_vars
RetrySpec == RetryInit /\ [][RetryNext]_vars
FairBufferSpec == BufferSpec /\ BufferFair

----------------------------------------------------------------------------
(* Measures the properties use: the occurrences of x in s.                 *)
RECURSIVE Count(_, _)
Count(x, s) ==
  IF s = <<>> THEN 0
  ELSE (IF Head(s) = x THEN 1 ELSE 0) + Count(x, Tail(s))

(* C1.  Every message the drain task obtains is acknowledged exactly once, *)
(* on every path of the try statement and after a reconnect.               *)
C1_AckedExactlyOnce == \A m \in 1..Len(acks) : acks[m] = 1

(* A message that lacks a key, obtained after a reconnect, acknowledged.   *)
C1_Witness ==
  /\ setups > 1
  /\ last.op = "_process"
  /\ last.head = "KeyError"
  /\ acks[last.msg] = 1

(* C2.  A message with a subscribed healer and a reference is not          *)
(* acknowledged while its item is not on the healers' input queues: the    *)
(* broadcast of a message that is acknowledged is never still to run.      *)
C2_EnqueuedBeforeAck ==
  \A i \in 1..Len(broadcasts) :
    HasRef(broadcasts[i].body) => acks[broadcasts[i].msg] = 0

(* C3.  A drain schedules exactly one check for every key that is in the   *)
(* buffer, however many items of the key the buffer holds, and none for    *)
(* any other key; when the buffer holds every item the key ever had, that  *)
(* check is the only one of the key.                                       *)
C3_OneCheckPerKey ==
  last.op = "_process_buffer" =>
    \A k \in Items :
      /\ Count(k, last.sched) = IF InSeq(k, last.buf) THEN 1 ELSE 0
      /\ CopiesIn(Call("_heal", k, CheckDelay), later[last.h])
           = IF InSeq(k, last.buf) THEN 1 ELSE 0
      /\ (InSeq(k, last.buf) /\ Count(k, last.buf) = enqueued[last.h][k])
           => checks[last.h][k] = 0

(* A full buffer of BufferSize equal items, drained into one check.        *)
C3_Witness ==
  /\ last.op = "_process_buffer"
  /\ last.head = "full"
  /\ \E k \in Items : Count(k, last.buf) = BufferSize
  /\ Len(last.sched) = 1

(* C4.  A key that had a single event is checked at most                   *)
(* MaxCheckRetries + 1 times; after the last of these answered RETRY the   *)
(* key is nowhere in the pipeline and has no count.                        *)
Abandoned(h, k) ==
  /\ retries[h][k] = 0
  /\ ~InSeq(k, queue[h])
  /\ ~InSeq(k, buffer[h])
  /\ \A i \in 1..Len(putters[h]) : putters[h][i].item # k
  /\ \A c \in BagToSet(later[h]) : c.item # k

C4_ChecksBounded ==
  \A h \in Healers, k \in Items :
    enqueued[h][k] <= 1 =>
      /\ checks[h][k] <= MaxCheckRetries + 1
      /\ (/\ checks[h][k] = MaxCheckRetries + 1
          /\ last.op = "_heal" /\ last.h = h /\ last.item = k
          /\ last.head = "None") => Abandoned(h, k)

(* The check number MaxCheckRetries + 1 of a key answers RETRY.            *)
C4_Witness ==
  \E h \in Healers, k \in Items :
    /\ enqueued[h][k] = 1
    /\ checks[h][k] = MaxCheckRetries + 1
    /\ last.op = "_heal" /\ last.h = h /\ last.item = k
    /\ last.head = "None"

(* C5.  A step calls fix exactly when it is a check that answered NOT_OK,  *)
(* once and with the arguments of the verdict; so the calls of fix of a    *)
(* healer number its NOT_OK verdicts.                                      *)
C5_FixPerNotOk ==
  [][\A h \in Healers :
       LET healed == last'.op = "_heal" /\ last'.h = h
           notOk == healed /\ last'.head = "False"
       IN  /\ fixes'[h] = fixes[h] + IF notOk THEN 1 ELSE 0
           /\ healed => last'.fix = IF notOk THEN <<last'.args>> ELSE <<>>]_vars

(* A check answers NOT_OK after an earlier check of the key answered       *)
(* RETRY, and fix gets the two arguments of the verdict.                   *)
C5_Witness ==
  /\ last.op = "_heal"
  /\ last.head = "False"
  /\ last.fix = << <<"zk_node", "data">> >>
  /\ checks[last.h][last.item] >= 2
  /\ fixes[last.h] = 1

(* C6.  Under fair scheduling every item on the input queue of a healer is *)
(* followed by a check of its key; the items are those of the events the   *)
(* bus delivers to the buffering healer.                                   *)
C6_EventuallyChecked ==
  \A h \in Healers, b \in KeyedEvents :
    LET k == <<b.oper, Ref(b)>>
    IN  InSeq(k, queue[h]) ~> (last.op = "_heal" /\ last.h = h /\ last.item = k)

(* The timer flushes a buffer that is not full and holds two keys: two     *)
(* checks are scheduled.                                                   *)
C6_Witness ==
  /\ last.op = "_process_buffer"
  /\ last.head = "ready"
  /\ Len(last.buf) < BufferSize
  /\ Len(last.sched) = 2

(* C7.  A buffer that is drained before it is full has waited              *)
(* BufferTimeout since it stopped being empty, to within one tick.         *)
C7_NotBeforeTimeout ==
  (last.op = "_process_buffer" /\ Len(last.buf) < BufferSize)
    => last.waited >= BufferTimeout - 1

(* A drain of one item that has waited BufferTimeout less one tick.        *)
C7_Witness ==
  /\ last.op = "_process_buffer"
  /\ Len(last.buf) = 1
  /\ last.waited = BufferTimeout - 1

(* C8.  A check or a fix that raises leaves the pipeline as an OK verdict  *)
(* does: no fix after a check that raised, no retry; and the tasks of the  *)
(* healer, the other healers and the dispatcher stay as they are and       *)
(* alive.                                                                  *)
TasksRun ==
  /\ \A h \in Healers : started[h] => Alive(workPc[h]) /\ recvPc[h] = "run"
  /\ main = "join" => drain = "run" /\ heartbeat = "run"

C8_FaultContained ==
  /\ []TasksRun
  /\ [][\A h \in Healers :
          (last'.op = "_heal" /\ last'.h = h /\ last'.exc # "none") =>
            /\ last'.exc = "check" => fixes' = fixes
            /\ retries' = retries
            /\ \A c \in BagToSet(later'[h]) :
                 CopiesIn(c, later'[h]) <= CopiesIn(c, later[h])
            /\ \A g \in Healers \ {h} :
                 later'[g] = later[g] /\ checks'[g] = checks[g]
            /\ UNCHANGED <<queue, buffer, putters, timerLeft, ready, workPc,
                           workLeft, recvPc, started>>
            /\ UNCHANGED <<main, drain, heartbeat, broadcasts, acks>>]_vars

(* After a check of h1 raised, h1 checks a later item and h2 has checked.  *)
C8_Witness ==
  /\ errors["h1"] >= 1
  /\ last.op = "_heal" /\ last.h = "h1" /\ last.exc = "none"
  /\ Len(acks) = 2
  /\ \E k \in Items : checks["h2"][k] >= 1

(* C9.  An I/O error raised in the drain task or in the heartbeat task     *)
(* never ends the command.                                                 *)
C9_IOErrorNeverFatal == exitCause # "socket.error"

(* C10.  A connection that cannot be opened in a reconnect does not end    *)
(* the command and does not cancel its tasks.                              *)
C10_ReconnectFailureNotFatal == ~(setups > 1 /\ exitCause = "CommandError")

(* C11.  Once _cleanup has returned for the user's interrupt, nothing that *)
(* could start a check or a fix is left: no delayed check or re-insertion, *)
(* no timer, no blocked put, no task of a healer or of the connector; and  *)
(* no check and no fix is called from then on.                             *)
Cancelled ==
  /\ drain # "run" /\ heartbeat # "run"
  /\ broadcasts = <<>>
  /\ \A h \in Healers :
       /\ later[h] = EmptyBag
       /\ timerLeft[h] = -1
       /\ putters[h] = <<>>
       /\ starts[h] = 0
       /\ ~Alive(workPc[h])
       /\ recvPc[h] # "run"

C11_NothingAfterShutdown ==
  /\ [](exitCause = "KeyboardInterrupt" => Cancelled)
  /\ [][exitCause = "KeyboardInterrupt" => checks' = checks /\ fixes' = fixes]_vars

(* The interrupt comes while a re-insertion of a key that answered RETRY   *)
(* is pending and the tasks of the healer run.                             *)
C11_Witness ==
  /\ exitCause = "KeyboardInterrupt"
  /\ last.op = "_cleanup"
  /\ last.head = "spawn_later"
  /\ \E k \in Items : retries["h1"][k] >= 1 /\ checks["h1"][k] >= 1
  /\ workPc["h1"] = "killed" /\ recvPc["h1"] = "killed"

(* C12.  A message with type and operation is handed to the healers that   *)
(* subscribe to the pair, in the order of their registration, and to no    *)
(* other; the broadcast of a message that has a reference appends the item *)
(* once to the input queue of each of them and leaves the others alone.    *)
Subscribers(t, o) ==
  SelectSeq(env.plugins, LAMBDA h : resource(h) = t /\ InSeq(o, on(h)))

C12_Dispatch ==
  [][/\ (last'.op = "_process" /\ last'.head = "else") =>
          LET subs == Subscribers(last'.item[2][1], last'.item[1])
          IN  /\ last'.sched = subs
              /\ IF subs = <<>> THEN broadcasts' = broadcasts
                 ELSE /\ Len(broadcasts') = Len(broadcasts) + 1
                      /\ broadcasts'[Len(broadcasts')].healers = subs
                      /\ broadcasts'[Len(broadcasts')].msg = last'.msg
     /\ (last'.op = "_broadcast" /\ last'.item # NoItem) =>
          /\ last'.sched = Subscribers(last'.item[2][1], last'.item[1])
          /\ \A h \in Healers :
               queue'[h] = IF InSeq(h, last'.sched)
                           THEN Append(queue[h], last'.item)
                           ELSE queue[h]]_vars

(* An UPDATE goes to h1 alone: h2, which subscribes to CREATE, gets        *)
(* nothing.                                                                *)
C12_Witness ==
  /\ last.op = "_broadcast"
  /\ last.item = <<"UPDATE", <<"floating-ip", "uuid">>>>
  /\ last.sched = <<"h1">>
  /\ enqueued["h1"][last.item] = 1
  /\ \A k \in Items : enqueued["h2"][k] = 0

(* C13.  The first start of a healer spawns its work task and its receive  *)
(* task; every later start spawns nothing and changes nothing of the       *)
(* healer; the latch is never released.  So each healer gets one task of   *)
(* each kind, however many starts the bootstrap spawned for it.            *)
C13_StartOnce ==
  [][\A h \in Healers :
       /\ started[h] => started'[h]
       /\ (last'.op = "start" /\ last'.h = h) =>
            IF started[h]
            THEN /\ last'.head = "-"
                 /\ UNCHANGED healerVars
            ELSE /\ last'.head = "spawn"
                 /\ started'[h]
                 /\ workPc[h] = "none" /\ workPc'[h] = "new"
                 /\ recvPc[h] = "none" /\ recvPc'[h] = "run"]_vars

(* The second start of h1, which subscribes to two operations, after its   *)
(* work task has begun its loop.                                           *)
C13_Witness ==
  /\ last.op = "start" /\ last.h = "h1" /\ last.head = "-"
  /\ starts["h1"] = 0
  /\ started["h1"]
  /\ workPc["h1"] = "run" /\ recvPc["h1"] = "run"

(* C14.  Every entry of the dispatch table is keyed by a resource type     *)
(* that is not empty and by an operation of Operation: a plugin that       *)
(* breaks the contract is not registered.                                  *)
C14_TableWellKeyed ==
  \A k \in DOMAIN healers : k[1] # "" /\ k[2] \in Opers

(* C15.  A check of the FIP healer on a floating IP whose znode is missing *)
(* answers NOT_OK and fix is called: no key of the healer has been checked *)
(* without a call of fix.                                                  *)
C15_MissingZnodeFixed ==
  \A k \in Items : checks["h2"][k] >= 1 => fixes["h2"] >= 1

(* C16.  A key whose check has just answered OK has no retry count.        *)
C16_CountDroppedOnOk ==
  (last.op = "_heal" /\ Verdict(last.head) = "ok")
    => retries[last.h][last.item] = 0

(* C17.  At most one greenlet runs Heal._process and at most one runs      *)
(* Heal._heartbeat, and a new _setup finds none of an earlier one.         *)
C17_OneDrainOneHeartbeat ==
  /\ DrainTasks <= 1
  /\ HeartbeatTasks <= 1
  /\ main = "connect" => DrainTasks = 0 /\ HeartbeatTasks = 0

(* After a reconnect the new drain task and the new heartbeat task run.    *)
C17_Witness ==
  /\ setups >= 2
  /\ main = "join"
  /\ drain = "run" /\ heartbeat = "run"
  /\ DrainTasks = 1 /\ HeartbeatTasks = 1

(* C18.  The k-th RETRY verdict of a key schedules the put into the buffer *)
(* k seconds later, and none once k is past max_check_retries.  The        *)
(* re-check of a key that had one event comes after that delay, the wait   *)
(* in the buffer, which is at most the timeout of the buffer timer, and    *)
(* the delay of the check, to within two polling ticks.                    *)
Rechecked ==
  /\ last.op = "_heal"
  /\ last.waited >= 0
  /\ enqueued[last.h][last.item] = 1

Retried == checks[last.h][last.item] - 1

C18_RetryDelay ==
  /\ [](Rechecked =>
          /\ last.waited >= Retried * TicksPerSecond + CheckDelay
          /\ last.waited <= Retried * TicksPerSecond + BufferTimeout
                              + CheckDelay + 2)
  /\ [][\A h \in Healers :
          (last'.op = "_heal" /\ last'.h = h /\ last'.head = "None") =>
            LET k == retries'[h][last'.item]
                put == Call("put", last'.item, k * TicksPerSecond)
                puts == {c \in BagToSet(later'[h]) : c.fn = "put"}
            IN  /\ k \in {0, retries[h][last'.item] + 1}
                /\ \A c \in puts :
                     CopiesIn(c, later'[h]) =
                       CopiesIn(c, later[h]) + IF k > 0 /\ c = put THEN 1 ELSE 0
                /\ k > 0 => put \in puts]_vars

(* The second re-check of a key, two seconds, the timeout of the buffer    *)
(* and the delay of the check after the second RETRY verdict.              *)
C18_Witness ==
  /\ Rechecked
  /\ Retried = 2
  /\ last.waited = 2 * TicksPerSecond + BufferTimeout + CheckDelay

(* C18 as stated: the re-check comes k seconds after the verdict, to       *)
(* within a polling tick.                                                  *)
C18_RecheckAfterKSeconds ==
  Rechecked => last.waited <= Retried * TicksPerSecond + 1

(* C19.  A turn of the work loop that finds the buffer full drains it,     *)
(* whether the timer is ready or not; a turn that finds it neither empty   *)
(* nor full, with the timer not ready, leaves it as it is and schedules    *)
(* nothing.                                                                *)
Polls(h) == Alive(workPc[h]) /\ workLeft[h] = 0 /\ workLeft'[h] = 1

C19_FullDrainsAtTick ==
  [][\A h \in Healers :
       Polls(h) =>
         /\ Len(buffer[h]) = BufferSize =>
              /\ buffer'[h] = <<>>
              /\ last'.op = "_process_buffer" /\ last'.h = h
              /\ last'.buf = buffer[h]
         /\ (/\ buffer[h] # <<>>
             /\ Len(buffer[h]) < BufferSize
             /\ ~(workPc[h] = "run" /\ ready[h])) =>
              /\ buffer'[h] = buffer[h]
              /\ later'[h] = later[h]
              /\ last'.op # "_process_buffer"]_vars

(* A full buffer of two keys is drained while the timer is not ready.      *)
C19_Witness ==
  /\ last.op = "_process_buffer"
  /\ last.head = "full"
  /\ Len(last.buf) = BufferSize
  /\ Len(last.sched) = 2

(* C20.  The items of a key that are on the input queue, in the buffer,    *)
(* held by a blocked put, waiting for their check or waiting for their     *)
(* re-insertion are never more than the items of the key that were put on  *)
(* the input queue: no step copies an item, and the item of a key with one *)
(* event is in one place at most.                                          *)
Places(h, k) ==
  Count(k, queue[h]) + Count(k, buffer[h])
    + Cardinality({i \in 1..Len(putters[h]) : putters[h][i].item = k})
    + BagCardinality([c \in {d \in BagToSet(later[h]) : d.item = k} |->
                        later[h][c]])

C20_OnePlace ==
  \A h \in Healers, k \in Items : Places(h, k) <= enqueued[h][k]

(* Of two items of a key one waits for its re-insertion and the other is   *)
(* in the buffer.                                                          *)
C20_Witness ==
  \E h \in Healers, k \in Items :
    /\ enqueued[h][k] = 2
    /\ Places(h, k) = 2
    /\ \E c \in BagToSet(later[h]) : c.fn = "put" /\ c.item = k
    /\ InSeq(k, buffer[h])

(* C21.  A message that has subscribers and carries neither an object      *)
(* snapshot nor a uuid is acknowledged once and dropped: its dispatch and  *)
(* its broadcast put nothing on the input queue of any healer and          *)
(* schedule nothing, the dispatcher stays in its loop for the next         *)
(* message, and an input queue grows only by the broadcast of a message    *)
(* that carries one of the two.                                            *)
Bare(body) == body.ident \notin {"obj_dict", "uuid"}

C21_BareDropped ==
  [][/\ ( /\ last'.op = "_process" /\ last'.head = "else"
          /\ last'.sched # <<>>
          /\ last'.item[2][2] \notin {"obj_dict", "uuid"} ) =>
          /\ Len(acks') = last'.msg /\ acks'[last'.msg] = 1
          /\ queue' = queue /\ enqueued' = enqueued
          /\ drain' = "run" /\ drainLeft' = 1
     /\ ( /\ last'.op = "_broadcast" /\ broadcasts # <<>>
          /\ Bare(Head(broadcasts).body) ) =>
          /\ acks[last'.msg] = 1
          /\ queue' = queue /\ enqueued' = enqueued
          /\ buffer' = buffer /\ later' = later
          /\ drain' = drain /\ main' = main
     /\ \A h \in Healers :
          Len(queue'[h]) > Len(queue[h]) =>
            /\ last'.op = "_broadcast" /\ broadcasts # <<>>
            /\ ~Bare(Head(broadcasts).body)]_vars

(* The first message had subscribers and its broadcast put nothing; the    *)
(* dispatcher went on to the second, which reached h1 and h2.              *)
C21_Witness ==
  /\ last.op = "_broadcast" /\ last.msg = 2 /\ last.item # NoItem
  /\ Len(acks) = 2 /\ acks[1] = 1 /\ acks[2] = 1
  /\ broadcasts = <<>>
  /\ \A h \in Healers, k \in Items :
       enqueued[h][k] = IF InSeq(h, Extensions) /\ k = last.item THEN 1 ELSE 0

====
